---------------------------- MODULE Spec2Model ----------------------------
(***************************************************************************)
(* A model of the streaming binary decoder of clickhouse-connect:          *)
(* ResponseBuffer (driverc/buffer.pyx), the column readers built on it     *)
(* (driverc/dataconv.pyx) and the contiguous-buffer string readers         *)
(* (driverc/creaders.pyx).                                                 *)
(*                                                                         *)
(* The cursor is the ResponseBuffer object: its fields are the variables,  *)
(* its generator `gen` is the sequence of chunks not yet yielded, and      *)
(* every method is an operator from a cursor record to a result record     *)
(* that holds the cursor afterwards, the outcome and the value returned.   *)
(* Bytes are the integers 0..255, a chunk is a sequence of bytes.          *)
(***************************************************************************)
EXTENDS Integers, Sequences, FiniteSets, TLC

VARIABLES
    gen,        \* self.gen: the chunks the source has not yielded yet
    pulls,      \* number of next(self.gen) calls made so far (history)
    buffer,     \* self.buffer / self.buff_source: the borrowed chunk, or NULL
    buf_loc,    \* self.buf_loc
    buf_sz,     \* self.buf_sz
    slice,      \* self.slice: the bytes written to the scratch buffer
    slice_sz,   \* self.slice_sz: capacity of the scratch buffer
    allocated,  \* self.slice is allocated: PyMem_Malloc'ed and not yet PyMem_Free'd
    self_source, \* self.source: the response the chunks come from, or None
    closes,     \* number of self.source.close() calls made so far (history)
    must_swap,  \* must_swap: sys.byteorder == 'big'
    events,     \* what the last operation did with memory and the source, in order (history)
    build,      \* how the build evaluates an out-of-range C int shift
    input,      \* what the stream was made from: a value, a row count (history)
    wire,       \* the chunk sequence the source was created with (history)
    returned,   \* concatenation of the bytes of all successful reads (history)
    requested,  \* number of bytes asked for by all successful reads (history)
    failed,     \* some operation on the cursor has raised (history)
    last        \* the last operation: its name, arguments, cursor before, outcome

vars == <<gen, pulls, buffer, buf_loc, buf_sz, slice, slice_sz, allocated, self_source,
          closes, must_swap, events, build, input, wire, returned, requested, failed,
          last>>

(***************************************************************************)
(* Bounds of the model                                                     *)
(***************************************************************************)
MaxChunks == 3
MaxChunkLen == 2
MaxRead == 3
MaxPulls == 5

(***************************************************************************)
(* Values                                                                  *)
(***************************************************************************)
\* the NULL pointer: a value that no chunk equals
NULL == <<-1>>
NullPtr == "null"
NoExc == "none"
StopIteration == "StopIteration"
IndexError == "IndexError"
SystemError == "SystemError"
UnicodeDecodeError == "UnicodeDecodeError"

\* the exceptions that mean the source ended before the read was satisfied
EndOfStream == {StopIteration, IndexError}

InitSliceSz == 4096

\* self.source before close(), and after it
Source == <<"source">>
None == <<>>

SeqsUpTo(S, n) == UNION {[1..k -> S] : k \in 0..n}

RECURSIVE Flatten(_)
Flatten(cs) == IF cs = <<>> THEN <<>> ELSE Head(cs) \o Flatten(Tail(cs))

RECURSIVE SumLen(_)
SumLen(cs) == IF cs = <<>> THEN 0 ELSE Len(Head(cs)) + SumLen(Tail(cs))

Min(a, b) == IF a <= b THEN a ELSE b

(***************************************************************************)
(* The cursor as a record of the fields of ResponseBuffer                  *)
(***************************************************************************)
\* (its field `events` collects the events of the operation applied to it)
Cursor == [gen |-> gen, pulls |-> pulls, buffer |-> buffer, buf_loc |-> buf_loc,
           buf_sz |-> buf_sz, slice |-> slice, slice_sz |-> slice_sz, events |-> <<>>]

\* ResponseBuffer.__init__
NewCursor(source) ==
    [gen |-> source, pulls |-> 0, buffer |-> NULL, buf_loc |-> 0, buf_sz |-> 0,
     slice |-> <<>>, slice_sz |-> InitSliceSz, events |-> <<>>]

\* the bytes the cursor has not handed out yet: the rest of the borrowed
\* chunk followed by the chunks still in the generator
Unconsumed(c) ==
    (IF c.buf_loc < c.buf_sz THEN SubSeq(c.buffer, c.buf_loc + 1, c.buf_sz) ELSE <<>>)
        \o Flatten(c.gen)

\* The events of an operation:
\*   "view"     bytes are read, or a pointer is handed out, through self.buffer
\*   "tail"     memcpy(self.slice, self.buffer + self.buf_loc, cur_len)
\*   "next"     next(self.gen)
\*   "release"  PyBuffer_Release(&self.buff_source)
\*   "acquire"  PyObject_GetBuffer(chunk, &self.buff_source, ...)
Log(c, evs) == [c EXCEPT !.events = c.events \o evs]

\* memcpy(dst + at, src, Len(src)) on a buffer whose first Len(dst) bytes are known
Memcpy(dst, at, src) ==
    [i \in 1..(IF Len(dst) > at + Len(src) THEN Len(dst) ELSE at + Len(src)) |->
        IF i > at /\ i <= at + Len(src) THEN src[i - at] ELSE dst[i]]

(***************************************************************************)
(* read_bytes_c                                                            *)
(***************************************************************************)
\* while temp < sz * 2: temp <<= 1
RECURSIVE GrowSlice(_, _)
GrowSliceDouble(temp, sz) == IF temp < sz * 2 THEN GrowSlice(temp * 2, sz) ELSE temp

\* (mutant) the capacity is doubled at most once
GrowSliceOnce(temp, sz) == IF temp < sz * 2 THEN temp * 2 ELSE temp

GrowSlice(temp, sz) == GrowSliceDouble(temp, sz)

\* a failed call: the exception and no span
Failed(c, exc) == [c |-> c, ok |-> FALSE, exc |-> exc, ptr |-> NullPtr, off |-> 0, span |-> <<>>]

\* (mutant) the fast path leaves the position where it was
FastReturnStay(c, temp, sz) ==
    IF c.buffer = NULL
    THEN Failed(c, SystemError)
    ELSE [c |-> Log(c, <<"view">>), ok |-> TRUE, exc |-> NoExc, ptr |-> "buffer",
          off |-> temp, span |-> SubSeq(c.buffer, temp + 1, temp + sz)]

\* the pointer `self.buffer + temp` returned by the fast path: a NULL buffer
\* plus 0 is NULL, which the `except NULL` declaration reports as an error
\* although no exception is set
FastReturn(c, temp, sz) ==
    LET c1 == [c EXCEPT !.buf_loc = temp + sz]
    IN  IF c.buffer = NULL
        THEN Failed(c1, SystemError)
        ELSE [c |-> Log(c1, <<"view">>), ok |-> TRUE, exc |-> NoExc, ptr |-> "buffer",
              off |-> temp, span |-> SubSeq(c.buffer, temp + 1, temp + sz)]

\* (mutant) a chunk that fits whole becomes the active region without a view
\* of it being acquired
TakeWholeChunkActive(c, cur_len, chunk) ==
    [c EXCEPT !.gen = Tail(c.gen), !.pulls = c.pulls + 1,
              !.slice = Memcpy(c.slice, cur_len, chunk),
              !.buf_sz = Len(chunk), !.buf_loc = Len(chunk),
              !.events = c.events \o <<"next">>]

\* one chunk that fits whole into the request: copied, not borrowed
TakeWholeChunk(c, cur_len, chunk) ==
    [c EXCEPT !.gen = Tail(c.gen), !.pulls = c.pulls + 1,
              !.slice = Memcpy(c.slice, cur_len, chunk),
              !.events = c.events \o <<"next">>]

\* (mutant) the position is left at the start of the new chunk
TakeChunkHeadNoAdvance(c, cur_len, sz, chunk) ==
    LET tail == sz - cur_len
    IN  [c EXCEPT !.gen = Tail(c.gen), !.pulls = c.pulls + 1,
                  !.slice = Memcpy(c.slice, cur_len, SubSeq(chunk, 1, tail)),
                  !.buffer = chunk, !.buf_sz = Len(chunk), !.buf_loc = 0,
                  !.events = c.events \o <<"next", "release", "acquire">>]

\* one chunk longer than what is still needed: its head is copied, the
\* chunk becomes the borrowed buffer and buf_loc points behind the head
TakeChunkHead(c, cur_len, sz, chunk) ==
    LET tail == sz - cur_len
    IN  [c EXCEPT !.gen = Tail(c.gen), !.pulls = c.pulls + 1,
                  !.slice = Memcpy(c.slice, cur_len, SubSeq(chunk, 1, tail)),
                  !.buffer = chunk, !.buf_sz = Len(chunk), !.buf_loc = tail,
                  !.events = c.events \o <<"next", "release", "acquire">>]

\* (mutant) an exhausted source ends the loop with what was copied so far
RECURSIVE FillSliceShort(_, _, _)
FillSliceShort(c, cur_len, sz) ==
    IF cur_len >= sz \/ c.gen = <<>>
    THEN [c |-> c, ok |-> TRUE, exc |-> NoExc, ptr |-> "slice", off |-> 0,
          span |-> SubSeq(c.slice, 1, Min(cur_len, sz))]
    ELSE LET chunk == Head(c.gen)
             x == Len(chunk)
         IN  IF cur_len + x <= sz
             THEN FillSliceShort(TakeWholeChunk(c, cur_len, chunk), cur_len + x, sz)
             ELSE FillSliceShort(TakeChunkHead(c, cur_len, sz, chunk), sz, sz)

\* while cur_len < sz: chunk = next(self.gen) ...
RECURSIVE FillSlice(_, _, _)
FillSlice(c, cur_len, sz) ==
    IF cur_len >= sz
    THEN [c |-> c, ok |-> TRUE, exc |-> NoExc, ptr |-> "slice", off |-> 0,
          span |-> SubSeq(c.slice, 1, sz)]
    ELSE IF c.gen = <<>>
    THEN Failed([c EXCEPT !.pulls = c.pulls + 1, !.events = c.events \o <<"next">>],
                StopIteration)
    ELSE LET chunk == Head(c.gen)
             x == Len(chunk)
         IN  IF cur_len + x <= sz
             THEN FillSlice(TakeWholeChunk(c, cur_len, chunk), cur_len + x, sz)
             ELSE FillSlice(TakeChunkHead(c, cur_len, sz, chunk), sz, sz)

\* the slow path up to the loop: grow the scratch buffer, copy the
\* unconsumed rest of the borrowed chunk to its start, reset the position
StartSlice(c, sz) ==
    LET cur_len == c.buf_sz - c.buf_loc
        temp == GrowSlice(c.slice_sz, sz)
        fresh == IF temp > c.slice_sz THEN <<>> ELSE c.slice
        carry == IF cur_len > 0
                 THEN Memcpy(fresh, 0, SubSeq(c.buffer, c.buf_loc + 1, c.buf_sz))
                 ELSE fresh
    IN  [c EXCEPT !.slice = carry, !.slice_sz = temp, !.buf_loc = 0, !.buf_sz = 0,
                  !.events = c.events \o (IF cur_len > 0 THEN <<"tail">> ELSE <<>>)]

\* (mutant) a read of exactly the rest of the chunk takes the slow path
FastPathStrict(c, sz) == c.buf_loc + sz < c.buf_sz

\* if self.buf_loc + sz <= e
FastPath(c, sz) == c.buf_loc + sz <= c.buf_sz

\* (mutant) the chunks are pulled first and the tail of the old chunk is
\* copied afterwards, through self.buffer as it is then
SlowPathLateCopy(c, sz) ==
    LET cur_len == c.buf_sz - c.buf_loc
        start == StartSlice([c EXCEPT !.buf_sz = c.buf_loc], sz)
        room == [start EXCEPT !.slice = Memcpy(start.slice, 0, [i \in 1..cur_len |-> 0])]
        f == FillSlice(room, cur_len, sz)
        mem == IF f.c.buffer = NULL THEN <<>> ELSE f.c.buffer
        tail == [i \in 1..cur_len |->
                    IF c.buf_loc + i <= Len(mem) THEN mem[c.buf_loc + i] ELSE 0]
        late == Memcpy(f.c.slice, 0, tail)
    IN  IF cur_len = 0 THEN f
        ELSE [f EXCEPT !.c = Log([f.c EXCEPT !.slice = late], <<"tail">>),
                       !.span = IF f.ok THEN SubSeq(late, 1, sz) ELSE <<>>]

\* the slow path: the tail of the borrowed chunk goes to the scratch buffer,
\* then chunks are pulled until sz bytes are there
SlowPath(c, sz) == FillSlice(StartSlice(c, sz), c.buf_sz - c.buf_loc, sz)

read_bytes_c(c, sz) ==
    IF FastPath(c, sz)
    THEN FastReturn(c, c.buf_loc, sz)
    ELSE SlowPath(c, sz)

(***************************************************************************)
(* _read_byte_load and read_byte                                           *)
(***************************************************************************)
\* the result of a function declared `except? 255`: on an exception the
\* returned byte is 255 and the exception is set
ByteResult(c, ret, exc) == [c |-> c, ret |-> ret, exc |-> exc]

\* (mutant) the chunk is not borrowed: what follows its first byte is dropped
BorrowNever(c, chunk) == c

\* if x > 1: borrow the chunk and set the position behind its first byte
BorrowAfterFirst(c, chunk) ==
    IF Len(chunk) > 1
    THEN [c EXCEPT !.buffer = chunk, !.buf_loc = 1, !.buf_sz = Len(chunk),
                   !.events = c.events \o <<"release", "acquire">>]
    ELSE c

read_byte_load(c) ==
    LET c0 == [c EXCEPT !.buf_loc = 0, !.buf_sz = 0, !.pulls = c.pulls + 1,
                        !.events = c.events \o <<"next">>]
    IN  IF c.gen = <<>>
        THEN ByteResult(c0, 255, StopIteration)
        ELSE LET chunk == Head(c.gen)
                 c1 == [c0 EXCEPT !.gen = Tail(c.gen)]
             IN  IF Len(chunk) = 0
                 THEN ByteResult(c1, 255, IndexError)
                 ELSE ByteResult(BorrowAfterFirst(c1, chunk), chunk[1], NoExc)

\* (mutant) the sentinel alone decides
ByteIsErrorNoCheck(ret, exc) == ret = 255

\* if b == 255 and PyErr_Occurred()
ByteIsError(ret, exc) == ret = 255 /\ exc # NoExc

\* (mutant) every byte is read from a newly pulled chunk
NextByteReload(c) == read_byte_load(c)

\* the next byte: from the borrowed chunk, or from a newly pulled chunk
NextByte(c) ==
    IF c.buf_loc < c.buf_sz
    THEN ByteResult([c EXCEPT !.buf_loc = c.buf_loc + 1, !.events = c.events \o <<"view">>],
                    c.buffer[c.buf_loc + 1], NoExc)
    ELSE read_byte_load(c)

read_byte(c) ==
    LET r == NextByte(c)
    IN  IF ByteIsError(r.ret, r.exc)
        THEN [c |-> r.c, ok |-> FALSE, exc |-> IF r.exc = NoExc THEN StopIteration ELSE r.exc,
              val |-> 255]
        ELSE [c |-> r.c, ok |-> TRUE, exc |-> NoExc, val |-> r.ret]

\* ResponseBuffer.read_bytes
read_bytes(c, sz) == read_bytes_c(c, sz)

(***************************************************************************)
(* Unsigned 64-bit integers (unsigned long long) as four 16-bit limbs,     *)
(* least significant first, and the C int shift of read_leb128             *)
(***************************************************************************)
Limb == 65536

U64Zero == <<0, 0, 0, 0>>

\* a + b modulo 2^64
U64Add(a, b) ==
    LET s1 == a[1] + b[1]
        s2 == a[2] + b[2] + s1 \div Limb
        s3 == a[3] + b[3] + s2 \div Limb
        s4 == a[4] + b[4] + s3 \div Limb
    IN  <<s1 % Limb, s2 % Limb, s3 % Limb, s4 % Limb>>

\* g * 2^shift modulo 2^64 for a group g < 128
U64Shl(g, shift) ==
    LET at == shift \div 16
        v == g * 2 ^ (shift % 16)
    IN  [i \in 1..4 |-> IF i - 1 = at THEN v % Limb
                        ELSE IF i - 1 = at + 1 THEN v \div Limb
                        ELSE 0]

\* the conversion of a C int (32 bits, two's complement) to unsigned long long
SignExtend32(u) ==
    LET ext == IF u[2] >= 32768 THEN 65535 ELSE 0
    IN  <<u[1], u[2], ext, ext>>

\* `(b & 0x7f) << shift` is a shift of a C int: it is defined when shift is
\* below the width of int and the result fits an int
ShiftDefined(g, shift) ==
    \/ shift <= 24
    \/ shift < 31 /\ g < 2 ^ (31 - shift)

\* the value `(b & 0x7f) << shift` adds to sz.  Outside ShiftDefined the
\* behaviour is undefined and `how` names what the build makes of it: the
\* count taken modulo 32 and the result cut to 32 bits ("mask32"), a count
\* of 32 or more giving 0 ("zero32"), or a shift carried out in 64 bits
\* ("wide64")
ShiftGroup(g, shift, how) ==
    IF ShiftDefined(g, shift) THEN SignExtend32(U64Shl(g, shift))
    ELSE IF how = "wide64" THEN U64Shl(g, shift)
    ELSE IF how = "zero32" /\ shift >= 32 THEN U64Zero
    ELSE SignExtend32(U64Shl(g, shift % 32))

\* while 1: b = next byte; sz += ((b & 0x7f) << shift); if (b & 0x80) == 0: return
RECURSIVE Leb128Loop(_, _, _, _)
Leb128Loop(c, sz, shift, how) ==
    LET r == NextByte(c)
    IN  IF ByteIsError(r.ret, r.exc)
        THEN [c |-> r.c, ok |-> FALSE, exc |-> r.exc, val |-> U64Zero]
        ELSE LET sum == U64Add(sz, ShiftGroup(r.ret % 128, shift, how))
             IN  IF r.ret < 128
                 THEN [c |-> r.c, ok |-> TRUE, exc |-> NoExc, val |-> sum]
                 ELSE Leb128Loop(r.c, sum, shift + 7, how)

\* ResponseBuffer.read_leb128
read_leb128(c, how) == Leb128Loop(c, U64Zero, 0, how)

(***************************************************************************)
(* Text: PyUnicode_Decode(..., 'utf8', 'strict') and bytes.hex()           *)
(* A Python str is the sequence of its code points.                        *)
(***************************************************************************)
IsCont(b) == b >= 128 /\ b <= 191

\* the length of the UTF-8 sequence that starts bs, 0 if it is not valid
Utf8SeqLen(bs) ==
    LET b0 == bs[1]
        n == Len(bs)
    IN  IF b0 < 128 THEN 1
        ELSE IF b0 >= 194 /\ b0 <= 223
        THEN IF n >= 2 /\ IsCont(bs[2]) THEN 2 ELSE 0
        ELSE IF b0 >= 224 /\ b0 <= 239
        THEN IF /\ n >= 3 /\ IsCont(bs[2]) /\ IsCont(bs[3])
                /\ (b0 = 224 => bs[2] >= 160)
                /\ (b0 = 237 => bs[2] <= 159)
             THEN 3 ELSE 0
        ELSE IF b0 >= 240 /\ b0 <= 244
        THEN IF /\ n >= 4 /\ IsCont(bs[2]) /\ IsCont(bs[3]) /\ IsCont(bs[4])
                /\ (b0 = 240 => bs[2] >= 144)
                /\ (b0 = 244 => bs[2] <= 143)
             THEN 4 ELSE 0
        ELSE 0

\* the code point of a valid sequence of k bytes at the start of bs
Utf8CodePoint(bs, k) ==
    IF k = 1 THEN bs[1]
    ELSE IF k = 2 THEN (bs[1] - 192) * 64 + (bs[2] - 128)
    ELSE IF k = 3 THEN (bs[1] - 224) * 4096 + (bs[2] - 128) * 64 + (bs[3] - 128)
    ELSE (bs[1] - 240) * 262144 + (bs[2] - 128) * 4096 + (bs[3] - 128) * 64 + (bs[4] - 128)

\* PyUnicode_Decode(bs, 'utf8', 'strict'): the text, or UnicodeDecodeError
RECURSIVE PyUnicode_Decode(_)
PyUnicode_Decode(bs) ==
    IF bs = <<>> THEN [ok |-> TRUE, text |-> <<>>]
    ELSE LET k == Utf8SeqLen(bs)
         IN  IF k = 0 THEN [ok |-> FALSE, text |-> <<>>]
             ELSE LET rest == PyUnicode_Decode(SubSeq(bs, k + 1, Len(bs)))
                  IN  IF rest.ok
                      THEN [ok |-> TRUE, text |-> <<Utf8CodePoint(bs, k)>> \o rest.text]
                      ELSE rest

\* the character of a hex digit: '0'..'9', 'a'..'f'
HexDigit(d) == IF d < 10 THEN 48 + d ELSE 87 + d

\* bytes.hex()
RECURSIVE Hex(_)
Hex(bs) ==
    IF bs = <<>> THEN <<>>
    ELSE <<HexDigit(bs[1] \div 16), HexDigit(bs[1] % 16)>> \o Hex(Tail(bs))

\* (mutant) an undecodable cell becomes the empty string
DecodeOrEmpty(bs) ==
    LET d == PyUnicode_Decode(bs)
    IN  IF d.ok THEN d.text ELSE <<>>

\* try: v = PyUnicode_Decode(buf, sz, encoding, errors)
\* except UnicodeDecodeError: v = PyBytes_FromStringAndSize(buf, sz).hex()
DecodeOrHex(bs) ==
    LET d == PyUnicode_Decode(bs)
    IN  IF d.ok THEN d.text ELSE Hex(bs)

(***************************************************************************)
(* Column readers of ResponseBuffer                                        *)
(***************************************************************************)
\* an unsigned long long as a size.  Sizes from 2^28 on stand for one size,
\* 2^28: more bytes than any stream here holds
U64ToSize(u) ==
    IF u[3] = 0 /\ u[4] = 0 /\ u[2] < 4096 THEN u[1] + u[2] * Limb ELSE 2 ^ 28

\* a failed column read: the exception and no column
NoColumn(c, exc) == [c |-> c, ok |-> FALSE, exc |-> exc, val |-> <<>>]

\* while x < num_rows: read the length, read the bytes, decode
RECURSIVE StrColLoop(_, _, _, _)
StrColLoop(c, left, column, how) ==
    IF left = 0 THEN [c |-> c, ok |-> TRUE, exc |-> NoExc, val |-> column]
    ELSE LET len == Leb128Loop(c, U64Zero, 0, how)
         IN  IF ~len.ok THEN NoColumn(len.c, len.exc)
             ELSE LET b == read_bytes_c(len.c, U64ToSize(len.val))
                  IN  IF ~b.ok THEN NoColumn(b.c, b.exc)
                      ELSE StrColLoop(b.c, left - 1,
                                      Append(column, DecodeOrHex(b.span)), how)

\* ResponseBuffer._read_str_col / read_str_col
read_str_col(c, num_rows, how) == StrColLoop(c, num_rows, <<>>, how)

\* ResponseBuffer.read_leb128_str
read_leb128_str(c, how) ==
    LET len == read_leb128(c, how)
    IN  IF ~len.ok THEN NoColumn(len.c, len.exc)
        ELSE LET b == read_bytes_c(len.c, U64ToSize(len.val))
             IN  IF ~b.ok THEN NoColumn(b.c, b.exc)
                 ELSE LET d == PyUnicode_Decode(b.span)
                      IN  IF d.ok
                          THEN [c |-> b.c, ok |-> TRUE, exc |-> NoExc, val |-> d.text]
                          ELSE NoColumn(b.c, UnicodeDecodeError)

\* (mutant) every row is cut from the start of the block
FixedRowFirst(b, sz, x) == SubSeq(b, 1, sz)

\* the bytes of row x (from 0) of a block of rows of sz bytes: b += sz per row
FixedRow(b, sz, x) == SubSeq(b, x * sz + 1, (x + 1) * sz)

\* ResponseBuffer.read_fixed_str_col
read_fixed_str_col(c, sz, num_rows) ==
    LET b == read_bytes_c(c, sz * num_rows)
    IN  IF ~b.ok THEN NoColumn(b.c, b.exc)
        ELSE [c |-> b.c, ok |-> TRUE, exc |-> NoExc,
              val |-> [x \in 1..num_rows |-> DecodeOrHex(FixedRow(b.span, sz, x - 1))]]

(***************************************************************************)
(* creaders.pyx: fixed strings from a contiguous buffer                    *)
(***************************************************************************)
\* read_fixed_string_str(source, loc, num_rows, size, encoding): the column
\* and the next read location
read_fixed_string_str(source, loc, num_rows, size) ==
    [column |-> [x \in 1..num_rows |->
                    DecodeOrHex(SubSeq(source, loc + (x - 1) * size + 1, loc + x * size))],
     cloc |-> loc + num_rows * size]

(***************************************************************************)
(* read_uuid_col (dataconv.pyx).  A 128-bit integer is eight 16-bit limbs, *)
(* least significant first.                                                *)
(***************************************************************************)
\* int.from_bytes(bs, 'little') for 16 bytes
IntFromBytesLittle(bs) == [i \in 1..8 |-> bs[2 * i - 1] + 256 * bs[2 * i]]

\* (mutant) the row is taken as it is on the wire
UuidTempNoSwap(loc) == loc

\* memcpy(temp, loc + 8, 8); memcpy(temp + 8, loc, 8)
UuidTemp(loc) == SubSeq(loc, 9, 16) \o SubSeq(loc, 1, 8)

read_uuid_col(c, num_rows) ==
    LET b == read_bytes_c(c, 16 * num_rows)
    IN  IF ~b.ok THEN NoColumn(b.c, b.exc)
        ELSE [c |-> b.c, ok |-> TRUE, exc |-> NoExc,
              val |-> [x \in 1..num_rows |->
                         IntFromBytesLittle(UuidTemp(FixedRow(b.span, 16, x - 1)))]]

(***************************************************************************)
(* Fixed-width columns: read_array, read_bytes_col (buffer.pyx) and        *)
(* read_nullable_array (dataconv.pyx).  An array type is its struct format *)
(* character; `big` is the byte order of the host (must_swap).             *)
(***************************************************************************)
\* the array types of the model: unsigned char and unsigned short
ArrayTypes == {"B", "H"}

\* result.itemsize / struct.calcsize(array_type)
ItemSize(t) == IF t = "B" THEN 1 ELSE 2

RECURSIVE LittleEndian(_)
LittleEndian(bs) == IF bs = <<>> THEN 0 ELSE bs[1] + 256 * LittleEndian(Tail(bs))

Reverse(bs) == [i \in 1..Len(bs) |-> bs[Len(bs) + 1 - i]]

\* the item the host reads from the bytes of one element
NativeItem(bs, big) == IF big THEN LittleEndian(Reverse(bs)) ELSE LittleEndian(bs)

\* (mutant) the block is never byte-swapped
ByteswapNever(bs, swap) == bs

\* if must_swap: result.byteswap()
Byteswap(bs, swap) == IF swap THEN Reverse(bs) ELSE bs

\* ResponseBuffer.read_array
read_array(c, t, num_rows, swap) ==
    LET b == read_bytes_c(c, ItemSize(t) * num_rows)
    IN  IF ~b.ok THEN NoColumn(b.c, b.exc)
        ELSE [c |-> b.c, ok |-> TRUE, exc |-> NoExc,
              val |-> [x \in 1..num_rows |->
                         NativeItem(Byteswap(FixedRow(b.span, ItemSize(t), x - 1), swap),
                                    swap)]]

\* ResponseBuffer.read_bytes_col
read_bytes_col(c, sz, num_rows) ==
    LET b == read_bytes_c(c, sz * num_rows)
    IN  IF ~b.ok THEN NoColumn(b.c, b.exc)
        ELSE [c |-> b.c, ok |-> TRUE, exc |-> NoExc,
              val |-> [x \in 1..num_rows |-> FixedRow(b.span, sz, x - 1)]]

\* the n bytes found at a pointer a read returned, in a later cursor state
Deref(c, r, n) ==
    LET mem == IF r.ptr = "slice" THEN c.slice
               ELSE IF c.buffer = NULL THEN <<>> ELSE c.buffer
    IN  [i \in 1..n |-> IF r.off + i <= Len(mem) THEN mem[r.off + i] ELSE 0]

\* (mutant) the null map is the pointer the first read returned, looked at
\* after the read of the values
NullMapBorrowed(r, c, n) == Deref(c, r, n)

\* null_map = PyMem_Malloc(num_rows); memcpy(null_map, read_bytes_c(num_rows), num_rows):
\* the bytes of the first read, copied before the cursor `c` of the second read exists
NullMapCopy(r, c, n) == r.span

\* a non-null entry of a column that may hold None
Box(v) == <<v>>

\* (mutant) only a mask byte of 1 makes a null
IsNullOne(m) == m = 1

\* if null_map[x] != 0
IsNull(m) == m # 0

\* read_nullable_array
read_nullable_array(c, t, num_rows, big) ==
    IF num_rows = 0 THEN [c |-> c, ok |-> TRUE, exc |-> NoExc, val |-> <<>>]
    ELSE LET m == read_bytes_c(c, num_rows)
         IN  IF ~m.ok THEN NoColumn(m.c, m.exc)
             ELSE LET b == read_bytes_c(m.c, num_rows * ItemSize(t))
                      null_map == NullMapCopy(m, b.c, num_rows)
                  IN  IF ~b.ok THEN NoColumn(b.c, b.exc)
                      ELSE [c |-> b.c, ok |-> TRUE, exc |-> NoExc,
                            val |-> [x \in 1..num_rows |->
                                IF IsNull(null_map[x]) THEN None
                                ELSE Box(NativeItem(FixedRow(b.span, ItemSize(t), x - 1),
                                                    big))]]

(***************************************************************************)
(* epoch_days_to_date (dataconv.pyx).  A date is <<year, month, day>>.     *)
(***************************************************************************)
ValueError == "ValueError"

\* the outcome of reading m_list outside its 13 entries, or of an int overflow
OutOfBounds == "undefined"

\* cython.cdivision(True): the quotient of C, truncated toward zero
CDiv(a, b) == IF a >= 0 THEN a \div b ELSE -((-a) \div b)

\* the remainder of C: a - b * (a / b)
CRem(a, b) == a - b * CDiv(a, b)

MONTH_DAYS == <<0, 31, 59, 90, 120, 151, 181, 212, 243, 273, 304, 334, 365>>
MONTH_DAYS_LEAP == <<0, 31, 60, 91, 121, 152, 182, 213, 244, 274, 305, 335, 366>>

\* the leap years of datetime.date
IsLeapYear(y) == y % 4 = 0 /\ (y % 100 # 0 \/ y % 400 = 0)

DaysInMonth(y, m) ==
    IF m = 2 THEN (IF IsLeapYear(y) THEN 29 ELSE 28)
    ELSE IF m \in {4, 6, 9, 11} THEN 30 ELSE 31

\* datetime.date(year, month, day): ValueError outside years 1..9999 and
\* for a day the month does not have
date(year, month, day) ==
    IF year \in 1..9999 /\ month \in 1..12 /\ day >= 1 /\ day <= DaysInMonth(year, month)
    THEN [ok |-> TRUE, exc |-> NoExc, val |-> <<year, month, day>>]
    ELSE [ok |-> FALSE, exc |-> ValueError, val |-> <<>>]

Undefined == [ok |-> FALSE, exc |-> OutOfBounds, val |-> <<>>]

\* while rem < prev: month -= 1; prev = m_list[month].  The index leaves the
\* table only downwards
RECURSIVE MonthDown(_, _, _)
MonthDown(m_list, month, rem) ==
    IF month < 0 THEN month
    ELSE IF rem < m_list[month + 1] THEN MonthDown(m_list, month - 1, rem)
    ELSE month

\* month = (rem + 24) >> 5 and the correction loop.  A negative rem is below
\* every entry of the table (unsigned short), so the loop runs off its start
MonthStep(year, rem, m_list) ==
    LET month == (rem + 24) \div 32
        found == IF month \in 0..12 THEN MonthDown(m_list, month, rem) ELSE -1
    IN  IF found < 0 THEN Undefined
        ELSE date(year, found + 1, rem + 1 - m_list[found + 1])

\* if 0 <= days < 47482
IsFastRange(days) == 0 <= days /\ days < 47482

\* the fast path: 1970-01-01 .. 2099-12-31, every fourth year a leap year
FastParts(days) ==
    LET cycles == CDiv(days + 365, 1461)
        rem0 == (days + 365) - cycles * 1461
        years == CDiv(rem0, 365)
    IN  [years |-> years, rem |-> rem0 - years * 365, year |-> cycles * 4 + years + 1969,
         end |-> years = 4, m_list |-> IF years = 3 THEN MONTH_DAYS_LEAP ELSE MONTH_DAYS]

\* (mutant) the fast path without the test of the end of a four-year cycle
DateFastNoCycleEnd(days) ==
    LET p == FastParts(days)
    IN  MonthStep(p.year, p.rem, p.m_list)

DateFast(days) ==
    LET p == FastParts(days)
    IN  IF p.end THEN date(p.year - 1, 12, 31)
        ELSE MonthStep(p.year, p.rem, p.m_list)

\* (mutant) only the end of a four-year cycle is a 31 December
YearEndNoCentury(years, cycles100) == years = 4

\* if years == 4 or cycles100 == 4
YearEnd(years, cycles100) == years = 4 \/ cycles100 = 4

\* (mutant) every fourth year is a leap year
LeapEveryFourth(years, year) == years = 3

\* if years == 3 and (year == 2000 or year % 100 != 0)
LeapGeneral(years, year) == years = 3 /\ (year = 2000 \/ CRem(year, 100) # 0)

\* the general path: days re-based to 1601-01-01 and factored into cycles of
\* 400, 100, 4 and 1 years
GeneralParts(days) ==
    LET cycles400 == CDiv(days + 134774, 146097)
        rem400 == days + 134774 - cycles400 * 146097
        cycles100 == CDiv(rem400, 36524)
        rem100 == rem400 - cycles100 * 36524
        cycles == CDiv(rem100, 1461)
        rem4 == rem100 - cycles * 1461
        years == CDiv(rem4, 365)
        year == cycles * 4 + cycles400 * 400 + cycles100 * 100 + years + 1601
    IN  [years |-> years, rem |-> rem4 - years * 365, year |-> year,
         end |-> YearEnd(years, cycles100),
         m_list |-> IF LeapGeneral(years, year) THEN MONTH_DAYS_LEAP ELSE MONTH_DAYS]

DateGeneral(days) ==
    LET p == GeneralParts(days)
    IN  IF days > 2147483647 - 134774 THEN Undefined
        ELSE IF p.end THEN date(p.year - 1, 12, 31)
        ELSE MonthStep(p.year, p.rem, p.m_list)

epoch_days_to_date(days) == IF IsFastRange(days) THEN DateFast(days) ELSE DateGeneral(days)

(***************************************************************************)
(* read_date_col and read_date32_col (dataconv.pyx)                        *)
(***************************************************************************)
\* (<int*>loc)[0]: four bytes in host byte order as a 32-bit two's complement int
Int32(bs, big) ==
    LET le == IF big THEN Reverse(bs) ELSE bs
    IN  LittleEndian(SubSeq(le, 1, 3))
            + 16777216 * (IF le[4] >= 128 THEN le[4] - 256 ELSE le[4])

\* while x < num_rows: v = epoch_days_to_date(...): the dates of the rows,
\* or the failure of the first row that has none
RECURSIVE DateRows(_)
DateRows(days) ==
    IF days = <<>> THEN [ok |-> TRUE, exc |-> NoExc, val |-> <<>>]
    ELSE LET v == epoch_days_to_date(Head(days))
         IN  IF ~v.ok THEN v
             ELSE LET rest == DateRows(Tail(days))
                  IN  IF ~rest.ok THEN rest
                      ELSE [ok |-> TRUE, exc |-> NoExc, val |-> <<v.val>> \o rest.val]

\* a column of dates from a block of num_rows items of sz bytes
DateColumn(c, sz, num_rows, big) ==
    LET b == read_bytes_c(c, sz * num_rows)
    IN  IF ~b.ok THEN NoColumn(b.c, b.exc)
        ELSE LET col == DateRows([x \in 1..num_rows |->
                            IF sz = 2 THEN NativeItem(FixedRow(b.span, 2, x - 1), big)
                                      ELSE Int32(FixedRow(b.span, 4, x - 1), big)])
             IN  IF ~col.ok THEN NoColumn(b.c, col.exc)
                 ELSE [c |-> b.c, ok |-> TRUE, exc |-> NoExc, val |-> col.val]

\* read_date_col: (<unsigned short*>loc)[0] per row
read_date_col(c, num_rows, big) == DateColumn(c, 2, num_rows, big)

\* read_date32_col: (<int*>loc)[0] per row
read_date32_col(c, num_rows, big) == DateColumn(c, 4, num_rows, big)

(***************************************************************************)
(* The cursor under a random sequence of reads                             *)
(***************************************************************************)
\* the bytes of the stream are numbered from a base, so that every byte of a
\* stream differs from its neighbours and 0xFF occurs among them
Bases == {0, 254}

RECURSIVE Number(_, _)
Number(lens, from) ==
    IF lens = <<>> THEN <<>>
    ELSE <<[i \in 1..Head(lens) |-> (from + i - 1) % 256]>>
            \o Number(Tail(lens), from + Head(lens))

ChunkLists == {Number(lens, b) : lens \in SeqsUpTo(0..MaxChunkLen, MaxChunks), b \in Bases}

NoOp == [name |-> "init", n |-> 0, rows |-> 0, pre |-> NewCursor(<<>>), ok |-> TRUE,
         exc |-> NoExc, ptr |-> NullPtr, off |-> 0, val |-> <<>>]

SetCursor(c) ==
    /\ gen' = c.gen
    /\ pulls' = c.pulls
    /\ buffer' = c.buffer
    /\ buf_loc' = c.buf_loc
    /\ buf_sz' = c.buf_sz
    /\ slice' = c.slice
    /\ slice_sz' = c.slice_sz
    /\ events' = c.events
    /\ UNCHANGED <<allocated, self_source, closes, must_swap>>

InitCursor(chunks) ==
    /\ gen = chunks
    /\ pulls = 0
    /\ buffer = NULL
    /\ buf_loc = 0
    /\ buf_sz = 0
    /\ slice = <<>>
    /\ slice_sz = InitSliceSz
    /\ allocated = TRUE
    /\ self_source = Source
    /\ closes = 0
    /\ events = <<>>
    /\ wire = chunks
    /\ returned = <<>>
    /\ requested = 0
    /\ failed = FALSE
    /\ last = NoOp

ShiftBuilds == {"mask32", "zero32", "wide64"}

Init ==
    /\ \E chunks \in ChunkLists : InitCursor(chunks)
    /\ build = "mask32"
    /\ must_swap = FALSE
    /\ input = <<>>

\* the reads of a behaviour stop once the source has been asked MaxPulls times,
\* and the caller reads from a cursor it has not closed
CanRead == pulls < MaxPulls /\ self_source = Source /\ allocated

ReadByte ==
    LET r == read_byte(Cursor)
    IN  /\ CanRead
        /\ SetCursor(r.c)
        /\ returned' = IF r.ok THEN Append(returned, r.val) ELSE returned
        /\ requested' = IF r.ok THEN requested + 1 ELSE requested
        /\ failed' = (failed \/ ~r.ok)
        /\ last' = [name |-> "read_byte", n |-> 1, rows |-> 0, pre |-> Cursor, ok |-> r.ok,
                    exc |-> r.exc, ptr |-> NullPtr, off |-> 0,
                    val |-> IF r.ok THEN <<r.val>> ELSE <<>>]
        /\ UNCHANGED <<build, input, wire>>

\* one call of read_bytes(n)
ReadBytesOf(n) ==
    LET r == read_bytes(Cursor, n)
    IN  /\ CanRead
        /\ SetCursor(r.c)
        /\ returned' = IF r.ok THEN returned \o r.span ELSE returned
        /\ requested' = IF r.ok THEN requested + n ELSE requested
        /\ failed' = (failed \/ ~r.ok)
        /\ last' = [name |-> "read_bytes", n |-> n, rows |-> 0, pre |-> Cursor, ok |-> r.ok,
                    exc |-> r.exc, ptr |-> r.ptr, off |-> r.off, val |-> r.span]
        /\ UNCHANGED <<build, input, wire>>

ReadBytes == \E n \in 0..MaxRead : ReadBytesOf(n)

Next == ReadByte \/ ReadBytes

Spec == Init /\ [][Next]_vars

(***************************************************************************)
(* close and __dealloc__ (specification SpecRelease)                       *)
(***************************************************************************)
\* (mutant) self.source.close() without the test of self.source
closeAgain ==
    /\ self_source' = None
    /\ closes' = closes + 1

\* if self.source: self.source.close(); self.source = None
close ==
    /\ self_source' = None
    /\ closes' = IF self_source # None THEN closes + 1 ELSE closes

\* the event of close: "close" when it invokes self.source.close()
CloseEvents == IF self_source # None THEN <<"close">> ELSE <<>>

\* (mutant) the view of the last chunk is kept
PyBuffer_Keep(view) == view

\* PyBuffer_Release(&self.buff_source): the cursor holds no view afterwards
PyBuffer_Release(view) == NULL

\* ResponseBuffer.close, called by the owner of a live cursor
Close ==
    /\ allocated
    /\ close
    /\ last' = [NoOp EXCEPT !.name = "close", !.pre = Cursor]
    /\ events' = CloseEvents
    /\ UNCHANGED <<gen, pulls, buffer, buf_loc, buf_sz, slice, slice_sz, allocated,
                   must_swap, build, input, wire, returned, requested, failed>>

\* ResponseBuffer.__dealloc__: self.close(); PyBuffer_Release(&self.buff_source);
\* PyMem_Free(self.slice).  It runs once, when the last reference is dropped
Dealloc ==
    /\ allocated
    /\ close
    /\ buffer' = PyBuffer_Release(buffer)
    /\ allocated' = FALSE
    /\ last' = [NoOp EXCEPT !.name = "__dealloc__", !.pre = Cursor]
    /\ events' = CloseEvents \o <<"release">>
    /\ UNCHANGED <<gen, pulls, buf_loc, buf_sz, slice, slice_sz, must_swap, build,
                   input, wire, returned, requested, failed>>

NextRelease == ReadByte \/ ReadBytes \/ Close \/ Dealloc

SpecRelease == Init /\ [][NextRelease]_vars

(***************************************************************************)
(* read_leb128 on the encodings of 64-bit values (specification SpecVarint)*)
(***************************************************************************)
MaxParts == 3

\* v shifted right by 7 bits
U64Shr7(v) ==
    [i \in 1..4 |-> (v[i] \div 128) + (IF i < 4 THEN (v[i + 1] % 128) * 512 ELSE 0)]

\* the wire format of an unsigned varint: base-128 groups, least significant
\* first, bit 7 set on every byte but the last
RECURSIVE Leb128Encode(_)
Leb128Encode(v) ==
    IF U64Shr7(v) = U64Zero
    THEN <<v[1] % 128>>
    ELSE <<128 + (v[1] % 128)>> \o Leb128Encode(U64Shr7(v))

\* 0, 127, 128, 16383, 16384, 2^28 - 1, 2^31 - 1, 2^31, 2^32, 2^63, 2^64 - 1
VarintValues ==
    { <<0, 0, 0, 0>>, <<127, 0, 0, 0>>, <<128, 0, 0, 0>>, <<16383, 0, 0, 0>>,
      <<16384, 0, 0, 0>>, <<65535, 4095, 0, 0>>, <<65535, 32767, 0, 0>>,
      <<0, 32768, 0, 0>>, <<0, 0, 1, 0>>, <<0, 0, 0, 32768>>,
      <<65535, 65535, 65535, 65535>> }

\* the byte that follows the encoding in the stream
Trailer == <<165>>

\* the ways to cut a byte sequence into at most m non-empty chunks
RECURSIVE Splits(_, _)
Splits(s, m) ==
    IF s = <<>> THEN {<<>>}
    ELSE IF m = 0 THEN {}
    ELSE UNION { { <<SubSeq(s, 1, k)>> \o rest :
                     rest \in Splits(SubSeq(s, k + 1, Len(s)), m - 1) } :
                 k \in 1..Len(s) }

\* one chunk per byte
Singles(s) == [i \in 1..Len(s) |-> <<s[i]>>]

Chunkings(s, m) == Splits(s, m) \cup {Singles(s)}

InitVarint ==
    \E v \in VarintValues :
        /\ \E chunks \in Chunkings(Leb128Encode(v) \o Trailer, MaxParts) :
                InitCursor(chunks)
        /\ input = v
        /\ build \in ShiftBuilds
        /\ must_swap = FALSE

ReadLeb128 ==
    LET r == read_leb128(Cursor, build)
    IN  /\ CanRead
        /\ SetCursor(r.c)
        /\ last' = [name |-> "read_leb128", n |-> 0, rows |-> 0, pre |-> Cursor, ok |-> r.ok,
                    exc |-> r.exc, ptr |-> NullPtr, off |-> 0, val |-> r.val]
        /\ failed' = (failed \/ ~r.ok)
        /\ UNCHANGED <<build, input, wire, returned, requested>>

NextVarint == ReadLeb128 \/ ReadByte

SpecVarint == InitVarint /\ [][NextVarint]_vars

\* the first read of the stream was read_leb128
FirstLeb128 == last.name = "read_leb128" /\ last.pre = NewCursor(wire)

\* C7: varint round trip.  read_leb128 on the encoding of any 64-bit value v
\* returns v and consumes exactly the bytes of the encoding (the next byte
\* of the stream is the one after it), however the encoding is chunked.
C7_VarintRoundTrip ==
    FirstLeb128 =>
        /\ last.ok
        /\ last.val = input
        /\ Unconsumed(Cursor) = Trailer

(***************************************************************************)
(* String columns on arbitrary byte streams (specification SpecCol)        *)
(***************************************************************************)
MaxWire == 4
MaxRows == 2
MaxSize == 2

\* lengths 0 and 2, a continuation byte that is no text on its own (0x81) and
\* the lead byte that makes it one (0xC2 0x81 is U+0081)
ColBytes == {0, 2, 129, 194}

InitCol ==
    \E s \in SeqsUpTo(ColBytes, MaxWire) :
        /\ \E chunks \in Chunkings(s, MaxParts) : InitCursor(chunks)
        /\ input = s
        /\ build = "mask32"
        /\ must_swap = FALSE

\* a behaviour reads one column, or a string (a column name) or a byte and
\* then a column
CanReadColumn ==
    \/ last.name = "init"
    \/ last.name = "read_leb128_str" /\ last.ok /\ last.pre = NewCursor(wire)
    \/ last.name = "read_byte" /\ last.ok /\ last.pre = NewCursor(wire)

ColumnRead(name, n, rows, r) ==
    /\ CanRead
    /\ CanReadColumn
    /\ SetCursor(r.c)
    /\ last' = [name |-> name, n |-> n, rows |-> rows, pre |-> Cursor, ok |-> r.ok,
                exc |-> r.exc, ptr |-> NullPtr, off |-> 0, val |-> r.val]
    /\ failed' = (failed \/ ~r.ok)
    /\ UNCHANGED <<build, input, wire, returned, requested>>

ReadStrCol ==
    \E rows \in 0..MaxRows :
        ColumnRead("read_str_col", 0, rows, read_str_col(Cursor, rows, build))

ReadLeb128Str ==
    ColumnRead("read_leb128_str", 0, 1, read_leb128_str(Cursor, build))

ReadFixedStrCol ==
    \E sz \in 0..MaxSize, rows \in 0..MaxRows :
        ColumnRead("read_fixed_str_col", sz, rows, read_fixed_str_col(Cursor, sz, rows))

\* the reader of creaders.pyx on the whole stream as one buffer; the caller
\* passes a location and a row count that lie inside the buffer
ReadFixedStringStr ==
    \E loc \in 0..Len(input), sz \in 1..MaxSize, rows \in 0..MaxRows :
        /\ last.name = "init"
        /\ loc + rows * sz <= Len(input)
        /\ last' = [name |-> "read_fixed_string_str", n |-> sz, rows |-> rows,
                    pre |-> Cursor, ok |-> TRUE, exc |-> NoExc, ptr |-> NullPtr,
                    off |-> loc, val |-> read_fixed_string_str(input, loc, rows, sz)]
        /\ UNCHANGED <<gen, pulls, buffer, buf_loc, buf_sz, slice, slice_sz, build,
                       input, wire, returned, requested, allocated, self_source, closes,
                       must_swap, events, failed>>

NextCol == ReadStrCol \/ ReadLeb128Str \/ ReadFixedStrCol \/ ReadFixedStringStr

SpecCol == InitCol /\ [][NextCol]_vars

\* the stream as a single chunk
OneChunk(s) == IF s = <<>> THEN <<>> ELSE <<s>>

\* the last operation carried out on another cursor
Redo(c) ==
    IF last.name = "read_str_col" THEN read_str_col(c, last.rows, build)
    ELSE IF last.name = "read_leb128_str" THEN read_leb128_str(c, build)
    ELSE read_fixed_str_col(c, last.n, last.rows)

\* C1: chunk-boundary invariance.  A column decoded first from a stream gives
\* the same column, or the same failure, as the same decode of the same bytes
\* delivered as one chunk.
C1_ChunkInvariance ==
    (/\ last.name \in {"read_str_col", "read_leb128_str", "read_fixed_str_col"}
     /\ last.pre = NewCursor(wire))
        => LET ref == Redo(NewCursor(OneChunk(Flatten(wire))))
           IN  /\ last.ok = ref.ok
               /\ last.exc = ref.exc
               /\ last.val = ref.val

\* the varint at the start of bs, read from a flat byte sequence
RECURSIVE FlatVarint(_, _, _)
FlatVarint(bs, at, shift) ==
    IF at > Len(bs) THEN [ok |-> FALSE, val |-> 0, next |-> at]
    ELSE IF bs[at] < 128
    THEN [ok |-> TRUE, val |-> bs[at] * 2 ^ shift, next |-> at + 1]
    ELSE LET more == FlatVarint(bs, at + 1, shift + 7)
         IN  [ok |-> more.ok, val |-> (bs[at] - 128) * 2 ^ shift + more.val,
              next |-> more.next]

\* the cells of `rows` length-prefixed strings at the start of bs
RECURSIVE FlatCells(_, _)
FlatCells(bs, rows) ==
    IF rows = 0 THEN [ok |-> TRUE, cells |-> <<>>]
    ELSE LET len == FlatVarint(bs, 1, 0)
         IN  IF ~len.ok \/ len.next - 1 + len.val > Len(bs)
             THEN [ok |-> FALSE, cells |-> <<>>]
             ELSE LET more == FlatCells(SubSeq(bs, len.next + len.val, Len(bs)), rows - 1)
                  IN  [ok |-> more.ok,
                       cells |-> <<SubSeq(bs, len.next, len.next + len.val - 1)>>
                                    \o more.cells]

\* the text of a cell, or the lowercase hex of its bytes
TextOrHex(cell) == IF PyUnicode_Decode(cell).ok THEN PyUnicode_Decode(cell).text ELSE Hex(cell)

\* C8: string fallback.  read_str_col and read_leb128_str never raise on
\* bytes that are not valid text: when the stream holds the rows whole, the
\* read succeeds, an invalid cell is the lowercase hex of its bytes and every
\* row is decoded from its own bytes.
C8_StringFallback ==
    last.name \in {"read_str_col", "read_leb128_str"} =>
        LET flat == FlatCells(Unconsumed(last.pre), last.rows)
        IN  /\ last.exc # UnicodeDecodeError
            /\ (last.ok /\ flat.ok) =>
                    last.val = IF last.name = "read_str_col"
                               THEN [i \in 1..last.rows |-> TextOrHex(flat.cells[i])]
                               ELSE TextOrHex(flat.cells[1])

\* C18: exact row count.  A column read either returns a column of exactly
\* the requested number of rows or fails with EndOfStream and returns nothing.
C18_ExactRowCount ==
    last.name \in {"read_str_col", "read_fixed_str_col"} =>
        \/ last.ok /\ Len(last.val) = last.rows
        \/ ~last.ok /\ last.exc \in EndOfStream /\ last.val = <<>>

\* C9: fixed-size string column.  read_fixed_str_col(size, rows) reads
\* size * rows bytes and nothing else, row i is the text of bytes
\* [i * size, (i + 1) * size) of them or the lowercase hex of exactly those
\* bytes, and it fails only for lack of bytes, never for an invalid cell; the
\* reader of creaders.pyx cuts its rows the same way from its location.
C9_FixedStrCol ==
    /\ last.name = "read_fixed_str_col" =>
        LET avail == Unconsumed(last.pre)
            total == last.n * last.rows
        IN  /\ last.ok =>
                /\ total <= Len(avail)
                /\ last.val = [i \in 1..last.rows |->
                        TextOrHex(SubSeq(avail, (i - 1) * last.n + 1, i * last.n))]
                /\ Unconsumed(Cursor) = SubSeq(avail, total + 1, Len(avail))
            /\ ~last.ok => last.exc # UnicodeDecodeError
            /\ (total > 0 /\ total <= Len(avail)) => last.ok
    /\ last.name = "read_fixed_string_str" =>
        /\ last.val.cloc = last.off + last.n * last.rows
        /\ last.val.column = [i \in 1..last.rows |->
                TextOrHex(SubSeq(input, last.off + (i - 1) * last.n + 1,
                                 last.off + i * last.n))]

\* two rows of two bytes, the first not valid text, the second valid, read
\* across a chunk boundary
C9_Witness ==
    /\ last.name = "read_fixed_str_col" /\ last.ok
    /\ last.n = 2 /\ last.rows = 2
    /\ Len(last.val[1]) = 4 /\ Len(last.val[2]) <= 2
    /\ Len(wire) > 1

(***************************************************************************)
(* UUID columns (specification SpecUuid)                                   *)
(***************************************************************************)
MaxUuidRows == 2

\* the bytes of the stream: an arithmetic progression modulo 256, so that the
\* sixteen bytes of a row differ from each other
UuidStreams ==
    { [i \in 1..n |-> (b + k * i) % 256] :
        n \in {16 * r - d : r \in 1..MaxUuidRows, d \in {0, 1}},
        b \in {0, 240}, k \in {1, 7} }

InitUuid ==
    \E s \in UuidStreams :
        /\ \E chunks \in Chunkings(s, 2) : InitCursor(chunks)
        /\ input = s
        /\ build = "mask32"
        /\ must_swap = FALSE

ReadUuidCol ==
    \E rows \in 0..MaxUuidRows :
        ColumnRead("read_uuid_col", 16, rows, read_uuid_col(Cursor, rows))

NextUuid == ReadUuidCol

SpecUuid == InitUuid /\ [][NextUuid]_vars

\* the bytes of a 128-bit integer, most significant first / least significant first
BytesBig(v) == [i \in 1..16 |-> IF i % 2 = 1 THEN v[8 - i \div 2] \div 256
                                             ELSE v[9 - i \div 2] % 256]
BytesLittle(v) == [i \in 1..16 |-> IF i % 2 = 1 THEN v[(i + 1) \div 2] % 256
                                                ELSE v[i \div 2] \div 256]

\* the wire bytes b0..b15 of row i (from 1) of the column just read
UuidWire(i) == SubSeq(Unconsumed(last.pre), 16 * (i - 1) + 1, 16 * i)

MaxArrWire == 6

\* mask bytes 0 and 2 (non-zero and not 1); the item 02 00 is 2 read
\* little-endian and 512 read big-endian
ArrBytes == {0, 2}

InitArr ==
    \E s \in SeqsUpTo(ArrBytes, MaxArrWire) :
        /\ \E chunks \in Chunkings(s, MaxParts) : InitCursor(chunks)
        /\ input = s
        /\ build = "mask32"
        /\ must_swap \in BOOLEAN

ReadNullableArray ==
    \E t \in ArrayTypes, rows \in 0..MaxRows :
        ColumnRead("read_nullable_array", ItemSize(t), rows,
                   read_nullable_array(Cursor, t, rows, must_swap))

ReadArray ==
    \E t \in ArrayTypes, rows \in 0..MaxRows :
        ColumnRead("read_array", ItemSize(t), rows, read_array(Cursor, t, rows, must_swap))

ReadBytesCol ==
    \E sz \in 0..MaxSize, rows \in 0..MaxRows :
        ColumnRead("read_bytes_col", sz, rows, read_bytes_col(Cursor, sz, rows))

NextArr == ReadNullableArray \/ ReadArray \/ ReadBytesCol \/ ReadByte

SpecArr == InitArr /\ [][NextArr]_vars

\* the array type of the last column read
LastType == IF last.n = 1 THEN "B" ELSE "H"

\* the mask bytes and the value block of the nullable column just read, as
\* they lie in the stream
WireMask == SubSeq(Unconsumed(last.pre), 1, last.rows)
WireValues == SubSeq(Unconsumed(last.pre), last.rows + 1, last.rows + last.rows * last.n)

\* the value block decoded without a mask
Unmasked == read_array(NewCursor(OneChunk(WireValues)), LastType, last.rows, must_swap)

\* C11: nullable masking.  Entry i of the column of read_nullable_array is
\* None exactly when mask byte i is not zero: a mask of non-zero bytes gives
\* a column of None whatever the values, and a mask of zero bytes gives the
\* column read_array decodes from the same value block.
C11_NullableMasking ==
    (last.name = "read_nullable_array" /\ last.ok) =>
        /\ Len(last.val) = last.rows
        /\ \A i \in 1..last.rows : (last.val[i] = None) <=> (WireMask[i] # 0)
        /\ (\A i \in 1..last.rows : WireMask[i] # 0) =>
                last.val = [i \in 1..last.rows |-> None]
        /\ (last.rows > 0 /\ \A i \in 1..last.rows : WireMask[i] = 0) =>
                /\ Unmasked.ok
                /\ last.val = [i \in 1..last.rows |-> Box(Unmasked.val[i])]

\* the two reads of the nullable column just read
MaskRead == read_bytes_c(last.pre, last.rows)
ValueRead == read_bytes_c(MaskRead.c, last.rows * last.n)

\* C12: null-mask capture.  The null positions of the column are those of
\* the mask bytes as they came from the wire, also when the read of the
\* value block has overwritten or replaced the memory the mask was read from.
C12_NullMaskCaptured ==
    (last.name = "read_nullable_array" /\ last.ok) =>
        \A i \in 1..last.rows :
            (last.val[i] = None) = (Flatten(wire)[Len(Flatten(wire)) - Len(Unconsumed(last.pre)) + i] # 0)

\* a column with a null and a value whose mask was assembled in the scratch
\* buffer and whose value block then overwrote it there
C12_Witness ==
    /\ last.name = "read_nullable_array" /\ last.ok /\ last.rows = 2
    /\ MaskRead.ptr = "slice" /\ ValueRead.ptr = "slice"
    /\ Deref(ValueRead.c, MaskRead, last.rows) # MaskRead.span
    /\ last.val[1] # None /\ last.val[2] = None

\* a mask read from the borrowed chunk that the value read then replaces
C12_WitnessReplaced ==
    /\ last.name = "read_nullable_array" /\ last.ok
    /\ MaskRead.ptr = "buffer" /\ ValueRead.c.buffer # last.pre.buffer

(***************************************************************************)
(* epoch_days_to_date on a range of day offsets (specification SpecDate)   *)
(***************************************************************************)
\* the offsets run from before 1601-01-01 (-134774) to after 2400-12-31
MaxDaysBefore == 136000
MaxDay == 157500

InitDate ==
    /\ InitCursor(<<>>)
    /\ build = "mask32"
    /\ must_swap = FALSE
    /\ input \in (-MaxDaysBefore)..MaxDay

EpochDaysToDate ==
    LET r == epoch_days_to_date(input)
    IN  /\ last.name = "init"
        /\ last' = [NoOp EXCEPT !.name = "epoch_days_to_date", !.ok = r.ok,
                                !.exc = r.exc, !.val = r.val]
        /\ UNCHANGED <<gen, pulls, buffer, buf_loc, buf_sz, slice, slice_sz, allocated,
                       self_source, closes, must_swap, events, build, input, wire,
                       returned, requested, failed>>

NextDate == EpochDaysToDate

SpecDate == InitDate /\ [][NextDate]_vars

\* The proleptic Gregorian calendar, independently of the code: the number
\* of days from 1970-01-01 to a date, and the date of a number of days
\* (years counted from 1 March, eras of 400 years; \div rounds down).
DaysFromCivil(y, m, d) ==
    LET yy == IF m <= 2 THEN y - 1 ELSE y
        era == yy \div 400
        yoe == yy - era * 400
        mp == IF m > 2 THEN m - 3 ELSE m + 9
        doy == (153 * mp + 2) \div 5 + d - 1
        doe == yoe * 365 + yoe \div 4 - yoe \div 100 + doy
    IN  era * 146097 + doe - 719468

CivilFromDays(days) ==
    LET z == days + 719468
        era == z \div 146097
        doe == z - era * 146097
        yoe == (doe - doe \div 1460 + doe \div 36524 - doe \div 146096) \div 365
        doy == doe - (365 * yoe + yoe \div 4 - yoe \div 100)
        mp == (5 * doy + 2) \div 153
        d == doy - (153 * mp + 2) \div 5 + 1
        m == IF mp < 10 THEN mp + 3 ELSE mp - 9
        y == yoe + era * 400 + (IF m <= 2 THEN 1 ELSE 0)
    IN  <<y, m, d>>

\* epoch_days_to_date has been applied to the offset `input`
Converted == last.name = "epoch_days_to_date"

\* C13: calendar reference points.  Offset 0 is 1970-01-01, offset -1 is
\* 1969-12-31, the offsets of 2000-02-29 and of 1900-03-01 give these dates,
\* the day before 1900-03-01 is 1900-02-28 and no offset gives 1900-02-29.
C13_ReferencePoints ==
    Converted =>
        /\ input = 0 => last.val = <<1970, 1, 1>>
        /\ input = -1 => last.val = <<1969, 12, 31>>
        /\ input = DaysFromCivil(2000, 2, 29) => last.val = <<2000, 2, 29>>
        /\ input = DaysFromCivil(1900, 3, 1) => last.val = <<1900, 3, 1>>
        /\ input = DaysFromCivil(1900, 3, 1) - 1 => last.val = <<1900, 2, 28>>
        /\ last.val # <<1900, 2, 29>>

\* the offset of 1900-03-01 has been converted
C13_Witness == Converted /\ last.ok /\ input = DaysFromCivil(1900, 3, 1)

\* C14: leap-year rule of the general path.  For an offset of the general
\* path (re-based count not negative) that lies in a century year the date
\* is the proleptic Gregorian one: 1700, 1800, 1900, 2100, 2200, 2300 have
\* no 29 February, 2400 has one, and every day of such a year comes from
\* exactly one offset.
C14_CenturyLeapRule ==
    (/\ Converted /\ ~IsFastRange(input) /\ input + 134774 >= 0
     /\ CivilFromDays(input)[1] % 100 = 0)
        => last.ok /\ last.val = CivilFromDays(input)

\* C15: negative offsets.  Every negative offset, also one before
\* 1601-01-01, gives its proleptic Gregorian date.
C15_NegativeOffsets ==
    (Converted /\ input < 0) => last.ok /\ last.val = CivilFromDays(input)

\* C16: fast path and general path agree.  For 0 <= d < 47482 the result
\* (of the fast path) is what the general path computes for d; 47481 is
\* 2099-12-31 and 47482, the first offset of the general path, 2100-01-01.
C16_FastGeneralAgree ==
    Converted =>
        /\ IsFastRange(input) =>
                /\ last.ok
                /\ DateGeneral(input) = [ok |-> TRUE, exc |-> NoExc, val |-> last.val]
        /\ input = 47481 => last.val = <<2099, 12, 31>>
        /\ input = 47482 => last.val = <<2100, 1, 1>>

\* the last offset of the fast path has been converted
C16_Witness == Converted /\ last.ok /\ input = 47481

\* what the month step of the conversion of `input` is given: the day of
\* the year and the table of the year
StepParts == IF IsFastRange(input) THEN FastParts(input) ELSE GeneralParts(input)

\* the conversion of `input` has reached the month step
MonthStepReached == Converted /\ ~StepParts.end

\* the zero-based month of day `rem` of a year with table m_list
TrueMonth(m_list, rem) ==
    CHOOSE m \in 0..11 : m_list[m + 1] <= rem /\ rem < m_list[m + 2]

\* C25: month estimation.  Whenever the conversion reaches the month step,
\* (rem + 24) >> 5 is an index in 0..12 not below the month of the day, the
\* correction loop ends at an index in 0..11 without leaving the table, and
\* the date has a month in 1..12 and a day in 1..(length of the month).
C25_MonthEstimate ==
    MonthStepReached =>
        LET rem == StepParts.rem
            m_list == StepParts.m_list
            est == (rem + 24) \div 32
        IN  /\ rem \in 0..(m_list[13] - 1)
            /\ est \in 0..12
            /\ est >= TrueMonth(m_list, rem)
            /\ MonthDown(m_list, est, rem) = TrueMonth(m_list, rem)
            /\ last.ok
            /\ last.val[2] = TrueMonth(m_list, rem) + 1
            /\ last.val[3] = rem + 1 - m_list[last.val[2]]
            /\ last.val[3] \in 1..(m_list[last.val[2] + 1] - m_list[last.val[2]])

\* C25 for the offsets from 1601-01-01 on
C25_MonthEstimateFrom1601 == (input >= -134774) => C25_MonthEstimate

\* the calendar day after a date of the proleptic Gregorian calendar
NextDay(d) ==
    IF d[3] < DaysInMonth(d[1], d[2]) THEN <<d[1], d[2], d[3] + 1>>
    ELSE IF d[2] < 12 THEN <<d[1], d[2] + 1, 1>>
    ELSE <<d[1] + 1, 1, 1>>

\* date a is before date b
DateBefore(a, b) ==
    \/ a[1] < b[1]
    \/ a[1] = b[1] /\ a[2] < b[2]
    \/ a[1] = b[1] /\ a[2] = b[2] /\ a[3] < b[3]

\* C29: calendar successor.  For -134774 <= d < 65535 the date of d + 1 is
\* the calendar day after the date of d, so the mapping is strictly
\* increasing: no date is skipped and none is given by two offsets.
C29_Successor ==
    (Converted /\ -134774 <= input /\ input < 65535) =>
        LET succ == epoch_days_to_date(input + 1)
        IN  /\ last.ok /\ succ.ok
            /\ succ.val = NextDay(last.val)
            /\ DateBefore(last.val, succ.val)

\* the day before the leap day of the century year 2000 has been converted
C29_Witness ==
    /\ Converted /\ last.val = <<2000, 2, 28>>
    /\ epoch_days_to_date(input + 1).val = <<2000, 2, 29>>

\* the last day of a century that is no leap year, the last day of a leap
\* year and the last offset of the fast path have been converted
C29_WitnessYearEnds ==
    /\ Converted
    /\ last.val \in {<<1899, 12, 31>>, <<2096, 12, 31>>, <<2099, 12, 31>>, <<1601, 1, 1>>}
    /\ epoch_days_to_date(input + 1).val = NextDay(last.val)

(***************************************************************************)
(* Date columns (specification SpecDateCol)                                *)
(***************************************************************************)
MaxDateWire == 4

\* 56 47 is 18262; FF FF FF FF is -1; 00 00 FD FF is -196608, a day of 1431
DateBytes == {0, 71, 86, 253, 255}

InitDateCol ==
    \E s \in SeqsUpTo(DateBytes, MaxDateWire) :
        /\ \E chunks \in Chunkings(s, MaxParts) : InitCursor(chunks)
        /\ input = s
        /\ build = "mask32"
        /\ must_swap \in BOOLEAN

ReadDateCol ==
    \E rows \in 0..MaxRows :
        ColumnRead("read_date_col", 2, rows, read_date_col(Cursor, rows, must_swap))

ReadDate32Col ==
    \E rows \in 0..MaxRows :
        ColumnRead("read_date32_col", 4, rows, read_date32_col(Cursor, rows, must_swap))

NextDateCol == ReadDateCol \/ ReadDate32Col

SpecDateCol == InitDateCol /\ [][NextDateCol]_vars

\* the day count of row i (from 1) of the date column just read: the
\* unsigned 16-bit or signed 32-bit little-endian value of its wire bytes
WireDays(i) ==
    LET bs == SubSeq(Unconsumed(last.pre), (i - 1) * last.n + 1, i * last.n)
    IN  IF last.n = 2 THEN LittleEndian(bs) ELSE Int32(bs, FALSE)

\* C17: date decoding.  When the stream holds the rows and each day count
\* has a date (years 1..9999), row i of read_date_col / read_date32_col is
\* the calendar date WireDays(i) days from 1970-01-01; 18262 is 2020-01-01.
C17_DateDecoding ==
    (/\ last.name \in {"read_date_col", "read_date32_col"}
     /\ last.rows > 0 /\ last.rows * last.n <= Len(Unconsumed(last.pre))
     /\ \A i \in 1..last.rows : CivilFromDays(WireDays(i))[1] \in 1..9999)
        => /\ last.ok
           /\ \A i \in 1..last.rows :
                /\ last.val[i] = CivilFromDays(WireDays(i))
                /\ WireDays(i) = 18262 => last.val[i] = <<2020, 1, 1>>

(***************************************************************************)
(* Claims about the cursor under random reads (specification Spec)         *)
(***************************************************************************)
Stream == Flatten(wire)

\* the unconsumed bytes of the borrowed chunk of a cursor
Remaining(c) == c.buf_sz - c.buf_loc

\* C2: wire-order conservation.  The bytes returned by the successful reads
\* so far (read_byte and read_bytes in any order), concatenated, are exactly
\* the first `requested` bytes of the concatenated chunk stream: nothing is
\* skipped, duplicated or reordered.
C2_WireOrder ==
    /\ requested <= Len(Stream)
    /\ returned = SubSeq(Stream, 1, requested)

\* a byte read from what a straddling read left over in the chunk it borrowed
C2_Witness ==
    /\ last.name = "read_byte" /\ last.ok
    /\ last.pre.slice # <<>>
    /\ last.pre.buf_loc > 0 /\ last.pre.buf_loc < last.pre.buf_sz
    /\ requested >= 3

\* C3: read_byte returns the next byte of the stream, pulls a chunk only
\* when the active region is exhausted (and then exactly one), fails with
\* EndOfStream exactly when the region is exhausted and the source is
\* exhausted or yields a zero-length chunk, and returns a data byte 0xFF
\* as 255.
C3_ReadByte ==
    last.name = "read_byte" =>
        LET pre == last.pre
            mustLoad == pre.buf_loc >= pre.buf_sz
            ended == mustLoad /\ (pre.gen = <<>> \/ Head(pre.gen) = <<>>)
        IN  /\ pulls = pre.pulls + (IF mustLoad THEN 1 ELSE 0)
            /\ last.ok = ~ended
            /\ ended => last.exc \in EndOfStream /\ last.val = <<>>
            /\ ~ended => last.val = << IF mustLoad THEN Head(pre.gen)[1]
                                                   ELSE pre.buffer[pre.buf_loc + 1] >>
            /\ ~ended => last.val = <<Head(Unconsumed(pre))>>

\* a data byte 0xFF that is the first byte of a newly pulled chunk
C3_Witness ==
    /\ last.name = "read_byte" /\ last.ok /\ last.val = <<255>>
    /\ last.pre.buf_loc >= last.pre.buf_sz

\* C4: read_bytes(n) fails with EndOfStream and returns no span whenever
\* fewer than n bytes are left in the borrowed chunk and all later chunks;
\* every remaining chunk is pulled once, the source is asked once more,
\* and not again.
C4_ReadBytesEndOfStream ==
    last.name = "read_bytes" =>
        LET pre == last.pre
            avail == Remaining(pre) + SumLen(pre.gen)
        IN  /\ last.n > avail =>
                /\ ~last.ok /\ last.exc \in EndOfStream
                /\ last.val = <<>> /\ last.ptr = NullPtr
                /\ gen = <<>>
                /\ pulls = pre.pulls + Len(pre.gen) + 1
            /\ (~last.ok /\ last.exc \in EndOfStream) => last.n > avail

\* a failing read that had a carry-over and pulled at least one more chunk
C4_Witness ==
    /\ last.name = "read_bytes" /\ ~last.ok /\ last.exc = StopIteration
    /\ Remaining(last.pre) > 0
    /\ SumLen(last.pre.gen) > 0

\* the chunks of a generator up to the first zero-length one
RECURSIVE BeforeEmpty(_)
BeforeEmpty(g) ==
    IF g = <<>> \/ Head(g) = <<>> THEN <<>> ELSE <<Head(g)>> \o BeforeEmpty(Tail(g))

\* C5: a zero-length chunk ends the source for a straddling read_bytes(n)
\* too: when the bytes before the first zero-length chunk do not cover n,
\* the read fails with EndOfStream.
C5_EmptyChunkEndsRead ==
    last.name = "read_bytes" =>
        LET pre == last.pre
            before == BeforeEmpty(pre.gen)
        IN  (/\ Len(before) < Len(pre.gen)
             /\ last.n > Remaining(pre) + SumLen(before))
                => ~last.ok /\ last.exc \in EndOfStream

\* a read that failed with EndOfStream
EndedRead(op) == ~op.ok /\ op.exc \in EndOfStream

\* C19: EndOfStream is terminal.  After a read that failed with EndOfStream
\* the next read that asks for at least one byte fails with EndOfStream too
\* and returns no data.
C19_EndOfStreamTerminal ==
    [][(EndedRead(last) /\ last'.n >= 1) => (EndedRead(last') /\ last'.val = <<>>)]_vars

C6_FastPath ==
    last.name = "read_bytes" =>
        LET pre == last.pre
        IN  /\ last.n <= Remaining(pre) =>
                /\ buf_loc = pre.buf_loc + last.n
                /\ pulls = pre.pulls /\ gen = pre.gen
                /\ slice = pre.slice /\ slice_sz = pre.slice_sz
                /\ buffer = pre.buffer /\ buf_sz = pre.buf_sz
                /\ pre.buffer # NULL =>
                    /\ last.ok /\ last.ptr = "buffer" /\ last.off = pre.buf_loc
                    /\ last.val = SubSeq(pre.buffer, pre.buf_loc + 1, pre.buf_loc + last.n)
            /\ last.ptr = "slice" => last.n > Remaining(pre)
            /\ (last.ok /\ last.n > Remaining(pre)) => last.ptr = "slice"

\* a fast read of the whole rest of a chunk while the scratch buffer holds
\* the span of an earlier straddling read
C6_Witness ==
    /\ last.name = "read_bytes" /\ last.ok /\ last.ptr = "buffer"
    /\ last.n >= 1 /\ last.n = Remaining(last.pre)
    /\ last.pre.slice # <<>>

(***************************************************************************)
(* Reads that outgrow the scratch buffer (specification SpecGrow)          *)
(***************************************************************************)
\* the chunk lengths of the streams: around half the first capacity of the
\* scratch buffer (2048), around that capacity (4096) and around twice it
GrowLens ==
    { <<4097, 4097, 4097>>, <<1, 2049, 8193>>, <<2049, 1, 4097>>, <<8193>>, <<>> }

\* read sizes whose doubles are at and above the capacities 4096, 8192 and 16384
GrowReads == {2048, 2049, 4097, 8193}

InitGrow ==
    /\ \E lens \in GrowLens : InitCursor(Number(lens, 0))
    /\ build = "mask32"
    /\ must_swap = FALSE
    /\ input = <<>>

ReadBlock == \E n \in GrowReads : ReadBytesOf(n)

NextGrow == ReadBlock

SpecGrow == InitGrow /\ [][NextGrow]_vars

\* the last operation was a read of more bytes than the borrowed chunk held
Straddling == last.name = "read_bytes" /\ last.n > Remaining(last.pre)

\* cap = from * 2^k for some k >= 0
RECURSIVE IsDoubling(_, _)
IsDoubling(from, cap) ==
    IF cap <= from THEN cap = from
    ELSE cap % 2 = 0 /\ IsDoubling(from, cap \div 2)

\* C21: scratch growth policy.  After a straddling read of n bytes the
\* capacity of the scratch buffer is the smallest (capacity before) * 2^k,
\* k >= 0, that is at least 2n; the capacity is always 4096 * 2^j, it is at
\* least 2n when a span of the scratch buffer was returned, and no operation
\* decreases it.
C21_ScratchGrowth ==
    /\ Straddling =>
            /\ IsDoubling(last.pre.slice_sz, slice_sz)
            /\ slice_sz >= 2 * last.n
            /\ slice_sz > last.pre.slice_sz => slice_sz \div 2 < 2 * last.n
    /\ IsDoubling(InitSliceSz, slice_sz)
    /\ (last.ok /\ last.ptr = "slice") => slice_sz >= 2 * last.n
    /\ slice_sz >= last.pre.slice_sz

\* a successful straddling read that grew a capacity of 8192, itself grown
\* by an earlier read, by two doublings
C21_Witness ==
    /\ Straddling /\ last.ok /\ last.ptr = "slice"
    /\ last.pre.slice_sz = 2 * InitSliceSz
    /\ slice_sz = 4 * last.pre.slice_sz
    /\ Remaining(last.pre) > 0

(***************************************************************************)
(* The order of copying, pulling and releasing within a read               *)
(* (specification Spec)                                                    *)
(***************************************************************************)
\* the positions of an event in the log of the last operation
At(e) == {i \in 1..Len(events) : events[i] = e}

\* at position i of the log self.buff_source is a view the cursor holds: it
\* was acquired by this operation after its last release, or it is the view
\* the cursor held before the operation and was not released since
ViewHeld(i) ==
    /\ \A j \in 1..(i - 1) :
            events[j] = "release" => \E k \in (j + 1)..(i - 1) : events[k] = "acquire"
    /\ (\A k \in 1..(i - 1) : events[k] # "acquire") => last.pre.buffer # NULL

\* the unconsumed rest of the borrowed chunk of a cursor
ChunkRest(c) == IF c.buf_loc < c.buf_sz THEN SubSeq(c.buffer, c.buf_loc + 1, c.buf_sz) ELSE <<>>

\* C22: switch from the borrowed chunk to the scratch buffer.  In a
\* straddling read the unconsumed tail of the chunk is copied to the start of
\* the scratch buffer before the source is asked for a chunk and before the
\* view of the chunk is released, and whenever the cursor reads through
\* self.buffer it holds the view it reads through.
C22_CopyBeforePull ==
    /\ (Straddling /\ Remaining(last.pre) > 0) =>
            /\ events # <<>> /\ events[1] = "tail"
            /\ SubSeq(slice, 1, Remaining(last.pre)) = ChunkRest(last.pre)
    /\ \A i \in At("tail") : \A j \in 1..(i - 1) : events[j] \notin {"next", "release"}
    /\ \A i \in At("tail") \cup At("view") : ViewHeld(i)

\* a read that copied a tail, took one chunk whole and replaced the borrowed
\* chunk by the next one
C22_Witness ==
    /\ Straddling /\ last.ok
    /\ events = <<"tail", "next", "next", "release", "acquire">>
    /\ buffer # last.pre.buffer

(***************************************************************************)
(* Pulling on demand (specification Spec)                                  *)
(***************************************************************************)
\* the least number of leading chunks of cs whose lengths add up to at
\* least r bytes; all of them and one more when they do not
RECURSIVE LeastCover(_, _)
LeastCover(cs, r) ==
    IF r <= 0 THEN 0
    ELSE IF cs = <<>> THEN 1
    ELSE 1 + LeastCover(Tail(cs), r - Len(Head(cs)))

\* C23: pulling on demand.  A read asks the source for a chunk only when it
\* requests more bytes than the cursor holds unconsumed, a successful read
\* pulls the least number of chunks that cover what it lacks, and as long as
\* no read has failed the number of chunks pulled is the least number of
\* leading chunks of the stream that cover the bytes requested so far.
C23_DemandDriven ==
    /\ last.name \in {"read_byte", "read_bytes"} =>
            /\ pulls > last.pre.pulls => last.n > Remaining(last.pre)
            /\ last.ok => pulls = last.pre.pulls
                                    + LeastCover(last.pre.gen, last.n - Remaining(last.pre))
    /\ ~failed =>
            /\ pulls = LeastCover(wire, requested)
            /\ pulls <= Len(wire)

\* three chunks pulled by successful reads, the last of them consumed in part
C23_Witness ==
    /\ ~failed /\ pulls = 3 /\ requested >= 3
    /\ last.name = "read_bytes" /\ last.ok
    /\ Remaining(Cursor) > 0 /\ Remaining(last.pre) > 0

(***************************************************************************)
(* read_ipv4_col, read_datetime_col (dataconv.pyx) and read_string_column  *)
(* (creaders.pyx)                                                          *)
(***************************************************************************)
\* (<unsigned int*>loc)[0]: four bytes in host byte order as two 16-bit limbs,
\* least significant first
UInt32(bs, big) ==
    LET le == IF big THEN Reverse(bs) ELSE bs
    IN  <<le[1] + 256 * le[2], le[3] + 256 * le[4]>>

\* loc = buffer.read_bytes_c(4 * num_rows) and (<unsigned int*>loc)[0] of
\* each item of 4 bytes
UInt32Column(c, num_rows, big) ==
    LET b == read_bytes_c(c, 4 * num_rows)
    IN  IF ~b.ok THEN NoColumn(b.c, b.exc)
        ELSE [c |-> b.c, ok |-> TRUE, exc |-> NoExc,
              val |-> [x \in 1..num_rows |-> UInt32(FixedRow(b.span, 4, x - 1), big)]]

\* v = IPv4Address.__new__(IPv4Address); v._ip = (<unsigned int*>loc)[0]
IPv4Address(u) == [ip |-> u]

read_ipv4_col(c, num_rows, big) ==
    LET col == UInt32Column(c, num_rows, big)
    IN  [col EXCEPT !.val = [x \in 1..Len(col.val) |-> IPv4Address(col.val[x])]]

\* datetime.utcfromtimestamp(seconds) for an unsigned 32-bit count of seconds:
\* the date of seconds / 86400 days, and hour, minute, second of the rest
\* (86400 = 128 * 675)
utcfromtimestamp(u) ==
    LET q == u[2] * 512 + u[1] \div 128
        secs == (q % 675) * 128 + (u[1] % 128)
    IN  CivilFromDays(q \div 675) \o <<secs \div 3600, (secs % 3600) \div 60, secs % 60>>

read_datetime_col(c, num_rows, big) ==
    LET col == UInt32Column(c, num_rows, big)
    IN  [col EXCEPT !.val = [x \in 1..Len(col.val) |-> utcfromtimestamp(col.val[x])]]

\* while 1: b = source_ptr[cloc]; sz += ((b & 0x7f) << shift); cloc += 1 ...
RECURSIVE StringVarint(_, _, _, _, _)
StringVarint(source, cloc, sz, shift, how) ==
    LET b == source[cloc + 1]
        sum == U64Add(sz, ShiftGroup(b % 128, shift, how))
    IN  IF b < 128 THEN [sz |-> U64ToSize(sum), cloc |-> cloc + 1]
        ELSE StringVarint(source, cloc + 1, sum, shift + 7, how)

\* for x in range(rows): read the length, decode sz bytes, cloc += sz
RECURSIVE StringColumnLoop(_, _, _, _, _)
StringColumnLoop(source, cloc, left, column, how) ==
    IF left = 0 THEN [column |-> column, cloc |-> cloc]
    ELSE LET len == StringVarint(source, cloc, U64Zero, 0, how)
             v == DecodeOrHex(SubSeq(source, len.cloc + 1, len.cloc + len.sz))
         IN  StringColumnLoop(source, len.cloc + len.sz, left - 1, Append(column, v), how)

\* read_string_column(source, loc, num_rows, encoding): the column and the
\* next read location
read_string_column(source, loc, num_rows, how) ==
    StringColumnLoop(source, loc, num_rows, <<>>, how)

(***************************************************************************)
(* Every column reader on one stream (specification SpecShape)             *)
(***************************************************************************)
MaxShapeWire == 4

\* 1 is a length of one byte, 129 0 the same length in two bytes
ShapeBytes == {0, 1, 129}

\* streams that hold a nullable column of two 2-byte items, a UUID, and a
\* UUID and a byte
ShapeLong == {[i \in 1..n |-> i % 2] : n \in {6, 16, 17}}

InitShape ==
    \E s \in SeqsUpTo(ShapeBytes, MaxShapeWire) \cup ShapeLong :
        /\ \E chunks \in Chunkings(s, MaxParts) : InitCursor(chunks)
        /\ input = s
        /\ build = "mask32"
        /\ must_swap = FALSE

ReadIpv4Col ==
    \E rows \in 0..MaxRows :
        ColumnRead("read_ipv4_col", 4, rows, read_ipv4_col(Cursor, rows, must_swap))

ReadDatetimeCol ==
    \E rows \in 0..MaxRows :
        ColumnRead("read_datetime_col", 4, rows, read_datetime_col(Cursor, rows, must_swap))

\* the sizes of `rows` length-prefixed strings at the start of bs: whether
\* bs holds them whole, and the bytes they take with their prefixes
RECURSIVE FlatShape(_, _)
FlatShape(bs, rows) ==
    IF rows = 0 THEN [ok |-> TRUE, size |-> 0]
    ELSE LET len == FlatVarint(bs, 1, 0)
             used == len.next - 1 + len.val
         IN  IF ~len.ok \/ used > Len(bs) THEN [ok |-> FALSE, size |-> 0]
             ELSE LET more == FlatShape(SubSeq(bs, used + 1, Len(bs)), rows - 1)
                  IN  [ok |-> more.ok, size |-> used + more.size]

\* the reader of creaders.pyx on the whole stream as one buffer; the caller
\* passes a location and a row count whose strings lie inside the buffer
ReadStringColumn ==
    \E loc \in 0..Len(input), rows \in 0..MaxRows :
        /\ last.name = "init"
        /\ FlatShape(SubSeq(input, loc + 1, Len(input)), rows).ok
        /\ last' = [name |-> "read_string_column", n |-> 0, rows |-> rows,
                    pre |-> Cursor, ok |-> TRUE, exc |-> NoExc, ptr |-> NullPtr,
                    off |-> loc, val |-> read_string_column(input, loc, rows, build)]
        /\ UNCHANGED <<gen, pulls, buffer, buf_loc, buf_sz, slice, slice_sz, build,
                       input, wire, returned, requested, allocated, self_source, closes,
                       must_swap, events, failed>>

NextShape ==
    \/ ReadStrCol \/ ReadFixedStrCol \/ ReadStringColumn
    \/ ReadArray \/ ReadBytesCol \/ ReadNullableArray
    \/ ReadDateCol \/ ReadDate32Col \/ ReadDatetimeCol \/ ReadIpv4Col \/ ReadUuidCol
    \/ ReadLeb128Str

SpecShape == InitShape /\ [][NextShape]_vars

\* the readers of a block of rows of last.n bytes each
FixedWidthReaders ==
    {"read_array", "read_bytes_col", "read_fixed_str_col", "read_date_col",
     "read_date32_col", "read_datetime_col", "read_ipv4_col", "read_uuid_col"}

\* the bytes of one item of a fixed-width column on the wire
ItemBytes ==
    IF last.name = "read_date_col" THEN 2
    ELSE IF last.name \in {"read_date32_col", "read_datetime_col", "read_ipv4_col"} THEN 4
    ELSE IF last.name = "read_uuid_col" THEN 16
    ELSE last.n

\* the number of bytes the column just read takes on the wire
WireShape ==
    IF last.name \in FixedWidthReaders THEN ItemBytes * last.rows
    ELSE IF last.name = "read_nullable_array" THEN last.rows + last.rows * last.n
    ELSE FlatShape(Unconsumed(last.pre), last.rows).size

\* C24: exact consumption.  A successful column read advances the stream by
\* the wire shape of the column and no further: rows * itemsize bytes for a
\* fixed-width column, rows + rows * itemsize for a nullable one, the lengths
\* of the prefixes and of the strings for a string column; what is left
\* unconsumed starts at the byte after the column.  read_string_column
\* returns the location after the column in the same way.
C24_ExactConsumption ==
    /\ (/\ last.name \in FixedWidthReaders \cup {"read_nullable_array", "read_str_col"}
        /\ last.ok)
            => LET avail == Unconsumed(last.pre)
               IN  /\ last.name = "read_str_col" => FlatShape(avail, last.rows).ok
                   /\ WireShape <= Len(avail)
                   /\ Unconsumed(Cursor) = SubSeq(avail, WireShape + 1, Len(avail))
    /\ last.name = "read_string_column" =>
            last.val.cloc = last.off
                            + FlatShape(SubSeq(input, last.off + 1, Len(input)), last.rows).size

\* a string column of two rows, the first with a two-byte prefix, read from
\* more than one chunk
C24_Witness ==
    /\ last.name = "read_str_col" /\ last.ok /\ last.rows = 2
    /\ WireShape = 4 /\ Unconsumed(last.pre)[1] = 129 /\ Len(wire) > 1

\* a nullable column of two 2-byte items read whole
C24_WitnessNullable ==
    /\ last.name = "read_nullable_array" /\ last.ok /\ last.rows = 2 /\ last.n = 2
    /\ Unconsumed(Cursor) = <<>>

\* a UUID read with a byte of the stream left over
C24_WitnessUuid ==
    /\ last.name = "read_uuid_col" /\ last.ok /\ last.rows = 1
    /\ Len(Unconsumed(Cursor)) = 1

(***************************************************************************)
(* Zero-length reads (specification Spec)                                  *)
(***************************************************************************)
\* C26: a zero-length read succeeds in every state of the cursor.
\* read_bytes(0) returns the empty span without failing and without pulling a
\* chunk, also when the cursor has not borrowed a chunk yet.
C26_ZeroLengthRead ==
    (last.name = "read_bytes" /\ last.n = 0) =>
        /\ last.ok /\ last.val = <<>>
        /\ pulls = last.pre.pulls /\ gen = last.pre.gen

\* C26 for a cursor that has borrowed a chunk
C26_ZeroLengthReadBorrowed ==
    last.pre.buffer # NULL => C26_ZeroLengthRead

(***************************************************************************)
(* Where the unconsumed bytes are (specification Spec)                     *)
(***************************************************************************)
\* the bytes of the chunks the source has yielded so far
Pulled == Flatten(SubSeq(wire, 1, Min(pulls, Len(wire))))

\* the source has been asked for a chunk after its last one: a read has run
\* into the end of the stream
Ended == pulls > Len(wire)

\* C27: between operations the bytes pulled from the source and not yet
\* consumed are the region [buf_loc, buf_sz) of the borrowed chunk; the
\* scratch buffer starts with the span of the most recent straddling read and
\* no other operation writes to it, so a straddling read that overwrites or
\* reallocates it loses no unconsumed byte.
C27_UnconsumedInChunk ==
    /\ ~Ended =>
            /\ Pulled = returned \o ChunkRest(Cursor)
            /\ Stream = returned \o Unconsumed(Cursor)
    /\ (Straddling /\ last.ok) =>
            /\ last.ptr = "slice"
            /\ SubSeq(slice, 1, last.n) = last.val
    /\ (last.name \in {"read_byte", "read_bytes"} /\ ~Straddling) => slice = last.pre.slice

\* a straddling read that overwrote the span of an earlier one in the
\* scratch buffer and left a part of its last chunk unconsumed
C27_Witness ==
    /\ Straddling /\ last.ok
    /\ last.pre.slice # <<>> /\ SubSeq(slice, 1, 1) # SubSeq(last.pre.slice, 1, 1)
    /\ ChunkRest(last.pre) # <<>> /\ ChunkRest(Cursor) # <<>>

(***************************************************************************)
(* The position and the view of the cursor (specification Spec)            *)
(***************************************************************************)
\* the number of chunk views the cursor holds after the first i events of
\* the last operation (releasing a view that is not held does nothing)
RECURSIVE ViewsHeld(_)
ViewsHeld(i) ==
    IF i = 0 THEN (IF last.pre.buffer = NULL THEN 0 ELSE 1)
    ELSE IF events[i] = "release" THEN 0
    ELSE IF events[i] = "acquire" THEN ViewsHeld(i - 1) + 1
    ELSE ViewsHeld(i - 1)

\* C28: position invariant.  After every operation, successful or failed,
\* buf_loc <= buf_sz and buf_sz is 0 or the length of the chunk whose view
\* the cursor holds; the cursor never holds more than one view, and it
\* releases the view it has before it acquires the next.
C28_PositionInvariant ==
    /\ 0 <= buf_loc /\ buf_loc <= buf_sz
    /\ buf_sz = 0 \/ (buffer # NULL /\ buf_sz = Len(buffer))
    /\ \A i \in 0..Len(events) : ViewsHeld(i) <= 1
    /\ \A i \in At("acquire") : i > 1 /\ events[i - 1] = "release"
    /\ ViewsHeld(Len(events)) = (IF buffer = NULL THEN 0 ELSE 1)

\* a read that replaced the view of one chunk by the view of another and
\* stopped inside the new chunk
C28_Witness ==
    /\ last.name = "read_bytes" /\ last.ok
    /\ last.pre.buffer # NULL /\ buffer # last.pre.buffer
    /\ 0 < buf_loc /\ buf_loc < buf_sz

\* a failed read that left the position at 0 of 0 while a view is held
C28_WitnessFailed ==
    /\ ~last.ok /\ buffer # NULL /\ buf_sz = 0 /\ last.pre.buf_sz > 0

(***************************************************************************)
(* Closing the source (specification SpecRelease)                          *)
(***************************************************************************)
\* C30: close is idempotent.  Over the life of a cursor the close of its
\* source is invoked at most once; every close and the deallocation succeed
\* and leave the source closed, and one that finds the source already closed
\* does not invoke its close.
C30_CloseOnce ==
    /\ closes <= 1
    /\ (closes = 1) <=> (self_source = None)
    /\ last.name \in {"close", "__dealloc__"} =>
            /\ last.ok
            /\ closes = 1
            /\ Cardinality(At("close")) <= 1

\* the deallocation of a cursor that was closed before: it does not invoke
\* the close of the source
C30_Witness ==
    /\ last.name = "__dealloc__" /\ At("close") = {} /\ closes = 1

\* a second close of a live cursor
C30_WitnessSecondClose ==
    /\ last.name = "close" /\ At("close") = {} /\ closes = 1 /\ allocated

=============================================================================
